---- MODULE Spec2Model ----
(***************************************************************************)
(* Retrieval pipeline of backend/retriever.py:                             *)
(*   search_vectors -> mmr -> cohere_rerank -> final evidence list.        *)
(*                                                                         *)
(* Numbers.  Scores, cosines and MMR values are Python floats in the       *)
(* source.  Here they are fixed-point integers: a score or a cosine x is   *)
(* carried as x * Unit, lamb as lamb * LambDen, and an MMR value as        *)
(* val * Unit * LambDen.  TLC integers are 32 bit, so the 1e-8 of _cosine  *)
(* is carried as 1 / EpsInv; like the source's epsilon it is far smaller   *)
(* than any gap between two modelled scores, it keeps a zero norm from     *)
(* dividing by zero, and it shrinks a cosine the more the smaller the      *)
(* norms are.                                                              *)
(*                                                                         *)
(* None.  A hit without a vector has vector = NoVector (no modelled hit    *)
(* carries an empty list); the response object that is None is NoResp; the *)
(* best_idx that is None is NoIdx.                                         *)
(***************************************************************************)
EXTENDS Integers, Sequences, FiniteSets, TLC

VARIABLES
    pc,             \* position in the call: "retrieve", "mmr", "rerank", "finish", "done"
    entry,          \* the function under call: "retrieve" or "mmr"
    search,         \* search_vectors: "pending", "returned", "raised"
    hits,           \* what search_vectors returned
    k,              \* mmr's k (retrieve's mmr_k)
    lamb,           \* mmr's lamb, times LambDen
    rerank_topk,    \* retrieve's rerank_topk
    co,             \* TRUE iff the Cohere client exists (COHERE_API_KEY set)
    candidates,     \* mmr's argument
    selected,       \* mmr's local list
    remaining,      \* mmr's local list
    mmr_sel,        \* retrieve's local: what mmr returned
    resp,           \* what co.rerank did in this call (NoResp: not called)
    reranked_docs,  \* first component of cohere_rerank's return value
    rerank_meta,    \* second component of cohere_rerank's return value
    result,         \* the value returned by the call
    outcome,        \* "none" while running, "return", "raise"
    raised_in,      \* where the exception left from: "none", "search", "mmr", "rerank"
    mmr_calls,      \* number of mmr invocations in this call
    service_calls   \* number of co.rerank invocations in this call

vars == <<pc, entry, search, hits, k, lamb, rerank_topk, co, candidates,
          selected, remaining, mmr_sel, resp, reranked_docs, rerank_meta,
          result, outcome, raised_in, mmr_calls, service_calls>>

----------------------------------------------------------------------------
(* Bounds *)

MaxHits == 3        \* longest hit list / candidate list
MaxK == 3           \* largest mmr_k and rerank_topk
MaxResults == 2     \* longest result list of the rerank service

----------------------------------------------------------------------------
(* Fixed point *)

Unit == 10000
LambDen == 2
EpsInv == 1000
\* best_val = -1e9: below every value the modelled scores produce
BestValInit == -1000000000

NoVector == << >>
NoIdx == 0
NoResp == [kind |-> "none", results |-> << >>]

Min(a, b) == IF a < b THEN a ELSE b
Max(a, b) == IF a > b THEN a ELSE b

----------------------------------------------------------------------------
(* Input domains *)

Vectors == { <<1, 0>>, <<3, 4>> }
VectorOrNone == Vectors \cup {NoVector}
Scores == { 5000, 8000 }
Ids == { "a", "b" }
HitIds == << "a", "b", "c", "d", "e" >>
Lambs == 0 .. LambDen
RelScores == { 1, 2 }

\* payload of the hit with id i: hit "c" carries no "text" key
PayloadOf(i) == [has_text |-> i # "c", text |-> "doc_" \o i]

SeqsUpTo(S, n) == UNION { [1..m -> S] : m \in 0..n }

\* search_vectors returns points of one collection: ids are distinct, and
\* Qdrant orders the hits by score, best first.  The hits of one search tie
\* on the score here (the order mmr gives them then rests on the vectors);
\* CandidateLists mixes the scores.
HitScores == { 8000 }
HitLists ==
    { h \in SeqsUpTo([score : HitScores, vector : VectorOrNone], MaxHits) :
        \A i \in 1..(Len(h) - 1) : h[i].score >= h[i+1].score }

\* arguments of a direct call of mmr: any list, ids may repeat
CandidateLists ==
    SeqsUpTo([id : Ids, score : Scores, vector : VectorOrNone,
              payload : {PayloadOf("a")}], MaxHits)

\* co.rerank on n documents: raises, answers something without usable
\* results ("malformed": the items carry no .score), or answers a list of
\* (index, score); an index is a position 0..n-1, or -1, or n (one too far)
ResultLists(n) == SeqsUpTo([index : (-1)..n, score : RelScores], MaxResults)
Responses(n) ==
    { [kind |-> "raise", results |-> << >>],
      [kind |-> "malformed", results |-> << >>] }
    \cup { [kind |-> "results", results |-> r] : r \in ResultLists(n) }

----------------------------------------------------------------------------
(* Python list operations *)

\* s[:n]
PySlice(s, n) ==
    IF n >= 0 THEN SubSeq(s, 1, Min(n, Len(s)))
    ELSE SubSeq(s, 1, Max(0, Len(s) + n))

\* s[i] is defined (no IndexError) for -len <= i < len
PyIndexOk(s, i) == i >= -Len(s) /\ i < Len(s)
PyIndex(s, i) == IF i >= 0 THEN s[i + 1] ELSE s[Len(s) + i + 1]

\* s.pop(i) leaves
PyPopRest(s, i) == SubSeq(s, 1, i - 1) \o SubSeq(s, i + 1, Len(s))

----------------------------------------------------------------------------
(* _cosine *)

Dot(a, b) == a[1] * b[1] + a[2] * b[2]
Sqrt(n) == CHOOSE r \in 0..n : r * r = n
Norm(a) == Sqrt(Dot(a, a))

\* zip(a, b) raises TypeError when a or b is None
CosineRaises(a, b) == a = NoVector \/ b = NoVector
cosine(a, b) == (Dot(a, b) * Unit * EpsInv) \div (Norm(a) * Norm(b) * EpsInv + 1)

----------------------------------------------------------------------------
(* mmr *)

RECURSIVE MaxOver(_, _)
MaxOver(c, sel) ==
    IF Len(sel) = 1 THEN cosine(c.vector, sel[1].vector)
    ELSE Max(cosine(c.vector, sel[1].vector), MaxOver(c, Tail(sel)))

sim_sel(c, sel) == IF sel # << >> THEN MaxOver(c, sel) ELSE 0

val(c, sel, lam) == lam * c.score - (LambDen - lam) * sim_sel(c, sel)

\* the scan raises iff some _cosine call gets a None: every pair
\* (c in remaining, s in selected) is evaluated
ScanRaises(sel, rem) ==
    /\ sel # << >>
    /\ \E i \in 1..Len(rem), j \in 1..Len(sel) :
          CosineRaises(rem[i].vector, sel[j].vector)

\* the scan with >= for >: the last of the best candidates wins
RECURSIVE ScanLastWins(_, _, _, _, _, _)
ScanLastWins(i, best_idx, best_val, sel, rem, lam) ==
    IF i > Len(rem) THEN best_idx
    ELSE LET v == val(rem[i], sel, lam)
         IN IF v >= best_val THEN ScanLastWins(i + 1, i, v, sel, rem, lam)
            ELSE ScanLastWins(i + 1, best_idx, best_val, sel, rem, lam)

\* for i, c in enumerate(remaining): if val > best_val: ...
RECURSIVE Scan(_, _, _, _, _, _)
Scan(i, best_idx, best_val, sel, rem, lam) ==
    IF i > Len(rem) THEN best_idx
    ELSE LET v == val(rem[i], sel, lam)
         IN IF v > best_val THEN Scan(i + 1, i, v, sel, rem, lam)
            ELSE Scan(i + 1, best_idx, best_val, sel, rem, lam)

BestIdx(sel, rem, lam) == Scan(1, NoIdx, BestValInit, sel, rem, lam)

\* while len(selected) < k and remaining
LoopCond(sel, rem, kk) == Len(sel) < kk /\ rem # << >>

MmrIter ==
    /\ pc = "mmr"
    /\ LoopCond(selected, remaining, k)
    /\ IF ScanRaises(selected, remaining)
          \/ BestIdx(selected, remaining, lamb) = NoIdx
       THEN /\ outcome' = "raise"
            /\ raised_in' = "mmr"
            /\ pc' = "done"
            /\ UNCHANGED <<selected, remaining>>
       ELSE LET b == BestIdx(selected, remaining, lamb)
            IN /\ selected' = Append(selected, remaining[b])
               /\ remaining' = PyPopRest(remaining, b)
               /\ UNCHANGED <<outcome, raised_in, pc>>
    /\ UNCHANGED <<entry, search, hits, k, lamb, rerank_topk, co, candidates,
                   mmr_sel, resp, reranked_docs, rerank_meta, result,
                   mmr_calls, service_calls>>

MmrReturn ==
    /\ pc = "mmr"
    /\ ~LoopCond(selected, remaining, k)
    /\ IF entry = "mmr"
       THEN /\ result' = selected
            /\ outcome' = "return"
            /\ pc' = "done"
            /\ UNCHANGED mmr_sel
       ELSE /\ mmr_sel' = selected
            /\ pc' = "rerank"
            /\ UNCHANGED <<result, outcome>>
    /\ UNCHANGED <<entry, search, hits, k, lamb, rerank_topk, co, candidates,
                   selected, remaining, resp, reranked_docs, rerank_meta,
                   raised_in, mmr_calls, service_calls>>

----------------------------------------------------------------------------
(* cohere_rerank *)

\* sorted(results, key=lambda r: r.score, reverse=True): stable, equal
\* scores keep their order
\* a sort that puts a later result before earlier ones of the same score
RECURSIVE InsertDescUnstable(_, _)
InsertDescUnstable(s, r) ==
    IF s = << >> THEN << r >>
    ELSE IF Head(s).score > r.score
         THEN << Head(s) >> \o InsertDescUnstable(Tail(s), r)
    ELSE << r >> \o s

RECURSIVE InsertDesc(_, _)
InsertDesc(s, r) ==
    IF s = << >> THEN << r >>
    ELSE IF Head(s).score >= r.score THEN << Head(s) >> \o InsertDesc(Tail(s), r)
    ELSE << r >> \o s

\* the sort left out
SortedDescUnsorted(s) == s

RECURSIVE SortedDesc(_)
SortedDesc(s) ==
    IF s = << >> THEN << >>
    ELSE InsertDesc(SortedDesc(SubSeq(s, 1, Len(s) - 1)), s[Len(s)])

\* the client test left out
ServiceCalledAnyway(c, docs) == docs # << >>

\* if not co or not docs: return [], None
ServiceCalled(c, docs) == c /\ docs # << >>

\* the body of the try block can be carried out on the response r
Processable(r, docs, top_k) ==
    /\ r.kind = "results"
    /\ LET top == PySlice(SortedDesc(r.results), top_k)
       IN \A i \in 1..Len(top) : PyIndexOk(docs, top[i].index)

\* the try/except left out: a failure leaves cohere_rerank as an exception
cohere_rerank_uncaught(r, docs, top_k) ==
    IF Processable(r, docs, top_k)
    THEN LET top == PySlice(SortedDesc(r.results), top_k)
         IN [raised |-> FALSE,
             docs |-> [i \in 1..Len(top) |-> PyIndex(docs, top[i].index)],
             meta |-> r]
    ELSE [raised |-> TRUE, docs |-> << >>, meta |-> NoResp]

\* the value cohere_rerank gives its caller when the service did r
cohere_rerank(r, docs, top_k) ==
    IF Processable(r, docs, top_k)
    THEN LET top == PySlice(SortedDesc(r.results), top_k)
         IN [raised |-> FALSE,
             docs |-> [i \in 1..Len(top) |-> PyIndex(docs, top[i].index)],
             meta |-> r]
    ELSE [raised |-> FALSE, docs |-> << >>, meta |-> NoResp]

----------------------------------------------------------------------------
(* retrieve *)

PayloadText(p) == IF p.has_text THEN p.text ELSE ""

Candidates(h) ==
    [i \in 1..Len(h) |-> [id |-> HitIds[i], score |-> h[i].score,
                          vector |-> h[i].vector, payload |-> PayloadOf(HitIds[i])]]

Docs(sel) == [i \in 1..Len(sel) |-> PayloadText(sel[i].payload)]

\* if not hits: return []
NoHitsNever(h) == FALSE
NoHits(h) == h = << >>

\* the search call wrapped in a try/except that answers []
SearchVectorsAbsorbed ==
    /\ pc = "retrieve"
    /\ \/ /\ search' = "raised"
          /\ result' = << >>
          /\ outcome' = "return"
          /\ pc' = "done"
          /\ UNCHANGED <<hits, candidates, selected, remaining, mmr_calls>>
       \/ \E h \in HitLists :
          /\ search' = "returned"
          /\ hits' = h
          /\ IF NoHits(h)
             THEN /\ result' = << >>
                  /\ outcome' = "return"
                  /\ pc' = "done"
                  /\ UNCHANGED <<candidates, selected, remaining, mmr_calls>>
             ELSE /\ candidates' = Candidates(h)
                  /\ selected' = << >>
                  /\ remaining' = Candidates(h)
                  /\ mmr_calls' = mmr_calls + 1
                  /\ pc' = "mmr"
                  /\ UNCHANGED <<result, outcome>>
    /\ UNCHANGED <<entry, k, lamb, rerank_topk, co, mmr_sel, resp,
                   reranked_docs, rerank_meta, service_calls, raised_in>>

SearchVectors ==
    /\ pc = "retrieve"
    /\ \/ /\ search' = "raised"
          /\ outcome' = "raise"
          /\ raised_in' = "search"
          /\ pc' = "done"
          /\ UNCHANGED <<hits, candidates, selected, remaining, result, mmr_calls>>
       \/ \E h \in HitLists :
          /\ search' = "returned"
          /\ hits' = h
          /\ IF NoHits(h)
             THEN /\ result' = << >>
                  /\ outcome' = "return"
                  /\ pc' = "done"
                  /\ UNCHANGED <<candidates, selected, remaining, mmr_calls>>
             ELSE /\ candidates' = Candidates(h)
                  /\ selected' = << >>
                  /\ remaining' = Candidates(h)
                  /\ mmr_calls' = mmr_calls + 1
                  /\ pc' = "mmr"
                  /\ UNCHANGED <<result, outcome>>
          /\ UNCHANGED raised_in
    /\ UNCHANGED <<entry, k, lamb, rerank_topk, co, mmr_sel, resp,
                   reranked_docs, rerank_meta, service_calls>>

CohereRerank ==
    /\ pc = "rerank"
    /\ IF ServiceCalled(co, Docs(mmr_sel))
       THEN \E r \in Responses(Len(mmr_sel)) :
              LET rr == cohere_rerank(r, Docs(mmr_sel), rerank_topk)
              IN /\ resp' = r
                 /\ service_calls' = service_calls + 1
                 /\ IF rr.raised
                    THEN /\ outcome' = "raise"
                         /\ raised_in' = "rerank"
                         /\ pc' = "done"
                         /\ UNCHANGED <<reranked_docs, rerank_meta>>
                    ELSE /\ reranked_docs' = rr.docs
                         /\ rerank_meta' = rr.meta
                         /\ pc' = "finish"
                         /\ UNCHANGED <<outcome, raised_in>>
       ELSE /\ reranked_docs' = << >>
            /\ rerank_meta' = NoResp
            /\ pc' = "finish"
            /\ UNCHANGED <<resp, service_calls, outcome, raised_in>>
    /\ UNCHANGED <<entry, search, hits, k, lamb, rerank_topk, co, candidates,
                   selected, remaining, mmr_sel, result, mmr_calls>>

\* lines 67-79: map the ranked results back, or fall back to the MMR order
RetrieveResult(sel, meta, topk) ==
    LET ranked == PySlice(SortedDesc(meta.results), topk)
    IN IF meta # NoResp /\ \A i \in 1..Len(ranked) : PyIndexOk(sel, ranked[i].index)
       THEN [i \in 1..Len(ranked) |-> PyIndex(sel, ranked[i].index)]
       ELSE PySlice(sel, topk)

RetrieveFinish ==
    /\ pc = "finish"
    /\ result' = RetrieveResult(mmr_sel, rerank_meta, rerank_topk)
    /\ outcome' = "return"
    /\ pc' = "done"
    /\ UNCHANGED <<entry, search, hits, k, lamb, rerank_topk, co, candidates,
                   selected, remaining, mmr_sel, resp, reranked_docs,
                   rerank_meta, raised_in, mmr_calls, service_calls>>

----------------------------------------------------------------------------
(* Specifications *)

InitCommon ==
    /\ search = "pending"
    /\ hits = << >>
    /\ selected = << >>
    /\ mmr_sel = << >>
    /\ resp = NoResp
    /\ reranked_docs = << >>
    /\ rerank_meta = NoResp
    /\ result = << >>
    /\ outcome = "none"
    /\ raised_in = "none"
    /\ service_calls = 0

\* a call retrieve(query_vector, query_text, topk, mmr_k, rerank_topk)
Init ==
    /\ InitCommon
    /\ entry = "retrieve"
    /\ pc = "retrieve"
    /\ k \in 0..MaxK
    /\ lamb = 1
    /\ rerank_topk \in 0..MaxK
    /\ co \in BOOLEAN
    /\ candidates = << >>
    /\ remaining = << >>
    /\ mmr_calls = 0

Next == SearchVectors \/ MmrIter \/ MmrReturn \/ CohereRerank \/ RetrieveFinish

Spec == Init /\ [][Next]_vars

\* a call mmr(candidates, k, lamb)
InitMmr ==
    /\ InitCommon
    /\ entry = "mmr"
    /\ pc = "mmr"
    /\ k \in (-1)..MaxK
    /\ lamb \in Lambs
    /\ rerank_topk = 0
    /\ co = FALSE
    /\ candidates \in CandidateLists
    /\ remaining = candidates
    /\ mmr_calls = 1

NextMmr == MmrIter \/ MmrReturn

SpecMmr == InitMmr /\ [][NextMmr]_vars

----------------------------------------------------------------------------
(* Properties *)

\* "the first n entries of s"
FirstN(s, n) == SubSeq(s, 1, Min(Max(n, 0), Len(s)))

\* candidates that carry a vector, in input order
HasVector(c) == c.vector # NoVector
Eligible(cands) == SelectSeq(cands, HasVector)

RerankUnavailable == ~co \/ resp.kind = "raise"

\* C1: in retrieve, when the search returned a non-empty hit list and
\* reranking is unavailable (no client) or the service call raised, the call
\* returns (does not raise) the first rerank_topk entries of the MMR
\* selection, in MMR order.
C1_FallbackIsMmrPrefix ==
    (pc = "done" /\ search = "returned" /\ hits # << >> /\ RerankUnavailable)
        => (outcome = "return" /\ result = FirstN(mmr_sel, rerank_topk))

\* every index of the response is a position 0..len(docs)-1
WellFormed(r, docs) ==
    /\ r.kind = "results"
    /\ \A i \in 1..Len(r.results) :
          r.results[i].index >= 0 /\ r.results[i].index < Len(docs)

\* res is sel mapped over the n best-scored entries of rs, best first
IsTopByScore(res, rs, sel, n) ==
    \E p \in [1..Min(n, Len(rs)) -> 1..Len(rs)] :
        /\ \A i, j \in DOMAIN p : i # j => p[i] # p[j]
        /\ Len(res) = Min(n, Len(rs))
        /\ \A i \in DOMAIN p : res[i] = sel[rs[p[i]].index + 1]
        /\ \A i, j \in DOMAIN p : i < j => rs[p[i]].score >= rs[p[j]].score
        /\ \A q \in 1..Len(rs) :
              (\A i \in DOMAIN p : p[i] # q)
                  => \A i \in DOMAIN p : rs[p[i]].score >= rs[q].score

\* C2: when the rerank service answered a well-formed list of (index, score)
\* over the MMR survivors' texts, retrieve returns the MMR-selected
\* candidates at those indices, by rerank score descending, truncated to
\* rerank_topk.
C2_RerankedOrder ==
    (pc = "done" /\ service_calls = 1 /\ WellFormed(resp, Docs(mmr_sel)))
        => (outcome = "return"
            /\ IsTopByScore(result, resp.results, mmr_sel, rerank_topk))

\* a reranker that reverses the order: the result is the MMR order reversed
C2_Witness ==
    /\ pc = "done" /\ service_calls = 1 /\ WellFormed(resp, Docs(mmr_sel))
    /\ Len(mmr_sel) >= 2 /\ Len(resp.results) = 2 /\ rerank_topk >= 2
    /\ resp.results[1].index = 0 /\ resp.results[2].index = 1
    /\ resp.results[1].score < resp.results[2].score
    /\ result = << mmr_sel[2], mmr_sel[1] >>

\* C3: when the search returns no hits the call is over at once with the
\* empty sequence: mmr and the rerank service were never invoked and nothing
\* was raised.
C3_EmptySearchReturnsAtOnce ==
    (search = "returned" /\ hits = << >>)
        => (pc = "done" /\ outcome = "return" /\ result = << >>
            /\ mmr_calls = 0 /\ service_calls = 0)

C3_Witness ==
    pc = "done" /\ search = "returned" /\ hits = << >> /\ co /\ k > 0

\* C4: mmr returns without error a selection of length
\* min(k, number of eligible candidates), for every list, k and lamb.
\* (A length is a count: for k < 0 the minimum is read as 0, the only
\* reading a selection can meet.)
C4_MmrLength ==
    (entry = "mmr" /\ pc = "done")
        => (outcome = "return"
            /\ Len(result) = Max(0, Min(k, Len(Eligible(candidates)))))

\* C5: the selection of mmr has no two entries with the same id, whatever
\* the input list; with k >= pool size it holds every eligible candidate
\* exactly once.
C5_MmrNoDuplicateIds ==
    (entry = "mmr" /\ pc = "done")
        => /\ outcome = "return"
           /\ \A i, j \in 1..Len(result) : i # j => result[i].id # result[j].id
           /\ k >= Len(candidates)
                 => /\ Len(result) = Len(Eligible(candidates))
                    /\ \A i \in 1..Len(candidates) :
                          HasVector(candidates[i])
                              => \E j \in 1..Len(result) : result[j] = candidates[i]

\* C6: with lamb = 1 the selection of mmr is in the descending-score order
\* of the eligible candidates, equal scores in input order.
C6_LambOneIsScoreOrder ==
    (entry = "mmr" /\ pc = "done" /\ lamb = LambDen)
        => (outcome = "return"
            /\ result = FirstN(SortedDesc(Eligible(candidates)), k))

\* C7: a candidate without a vector never appears in the selection and never
\* makes mmr or retrieve raise; when every candidate lacks a vector the
\* selection and retrieve's result are empty.
C7_VectorlessExcluded ==
    (pc = "done" /\ search = "returned")
        => /\ outcome = "return"
           /\ \A i \in 1..Len(mmr_sel) : HasVector(mmr_sel[i])
           /\ \A i \in 1..Len(result) : HasVector(result[i])
           /\ Eligible(candidates) = << >> => (mmr_sel = << >> /\ result = << >>)

\* cohere_rerank has returned to retrieve
RerankReturned == pc = "finish" \/ (pc = "done" /\ outcome = "return" /\ hits # << >>)

\* C8: without a configured service (co is None) cohere_rerank returns
\* ([], None) and the number of calls to the rerank service stays zero.
C8_NoClientNoCall ==
    ~co => /\ service_calls = 0
           /\ RerankReturned => (reranked_docs = << >> /\ rerank_meta = NoResp)

C8_Witness == pc = "finish" /\ ~co /\ Len(mmr_sel) >= 2

\* the service raised, or answered something the try block cannot process
Unusable(r, docs, top_k) ==
    \/ r.kind \in {"raise", "malformed"}
    \/ /\ r.kind = "results"
       /\ top_k >= Len(r.results)
       /\ \E i \in 1..Len(r.results) : ~PyIndexOk(docs, r.results[i].index)

\* C9: cohere_rerank never raises to retrieve; when the service call raises
\* or its response cannot be processed it returns ([], None), and the
\* service is called at most once in one retrieve.
C9_RerankNeverRaises ==
    /\ raised_in # "rerank"
    /\ service_calls <= 1
    /\ (service_calls = 1 /\ Unusable(resp, Docs(mmr_sel), rerank_topk))
          => /\ pc \in {"finish", "done"}
             /\ reranked_docs = << >>
             /\ rerank_meta = NoResp

C9_Witness ==
    /\ pc = "finish" /\ service_calls = 1
    /\ resp.kind = "results" /\ Len(resp.results) = 2
    /\ Unusable(resp, Docs(mmr_sel), rerank_topk)

\* C10: when the MMR selection is non-empty and rerank_topk >= 1, retrieve
\* returns a non-empty result whatever the rerank service did.
C10_FallbackNonEmpty ==
    (pc = "done" /\ outcome = "return" /\ mmr_sel # << >> /\ rerank_topk >= 1)
        => result # << >>

\* C11: when search_vectors raises, the exception leaves retrieve to the
\* caller and neither mmr nor the rerank service was run; a failure of the
\* rerank stage never leaves retrieve as an exception.
C11_SearchFailurePropagates ==
    /\ search = "raised"
          => (pc = "done" /\ outcome = "raise" /\ raised_in = "search"
              /\ result = << >> /\ mmr_calls = 0 /\ service_calls = 0)
    /\ (pc = "done" /\ service_calls = 1
        /\ Unusable(resp, Docs(mmr_sel), rerank_topk))
          => outcome = "return"

C11_Witness == search = "raised" /\ pc = "done" /\ co /\ k > 0 /\ rerank_topk > 0

\* the positions of rs by score descending, equal scores in their order in rs
StableDescOrder(rs) ==
    CHOOSE p \in [1..Len(rs) -> 1..Len(rs)] :
        /\ \A i, j \in 1..Len(rs) : i # j => p[i] # p[j]
        /\ \A i, j \in 1..Len(rs) :
              i < j => \/ rs[p[i]].score > rs[p[j]].score
                       \/ rs[p[i]].score = rs[p[j]].score /\ p[i] < p[j]

\* C12: after a successful service call cohere_rerank returns the strings
\* docs[r.index] of the results by score descending, equal scores in the
\* order the service gave them, cut to the first top_k.
C12_RerankedDocsStable ==
    (service_calls = 1 /\ WellFormed(resp, Docs(mmr_sel)))
        => LET rs == resp.results
               p == StableDescOrder(rs)
               n == Min(Max(rerank_topk, 0), Len(rs))
           IN /\ reranked_docs = [i \in 1..n |-> Docs(mmr_sel)[rs[p[i]].index + 1]]
              /\ rerank_meta = resp

\* two results of equal score, given as index 1 then index 0
C12_Witness ==
    /\ pc = "finish" /\ service_calls = 1 /\ WellFormed(resp, Docs(mmr_sel))
    /\ Len(resp.results) = 2 /\ rerank_topk >= 2
    /\ resp.results[1].score = resp.results[2].score
    /\ resp.results[1].index = 1 /\ resp.results[2].index = 0
    /\ Len(reranked_docs) = 2 /\ reranked_docs[1] # reranked_docs[2]
    /\ reranked_docs[1] = Docs(mmr_sel)[2]

\* max_similarity(c, selected): 0 while nothing is selected
MaxSimilarity(c, sel) ==
    IF sel = << >> THEN 0
    ELSE LET sims == { cosine(c.vector, sel[j].vector) : j \in 1..Len(sel) }
         IN CHOOSE m \in sims : \A x \in sims : m >= x

Value(c, sel, lam) == lam * c.score - (LambDen - lam) * MaxSimilarity(c, sel)

MalformedResponse ==
    \/ resp.kind = "malformed"
    \/ /\ resp.kind = "results"
       /\ \E i \in 1..Len(resp.results) :
             resp.results[i].index < 0 \/ resp.results[i].index >= Len(mmr_sel)

\* C14: when the rerank service answers malformed data, in particular a
\* result whose index is negative or too large, retrieve returns the
\* MMR-only fallback (the first rerank_topk entries of the MMR selection, in
\* MMR order) and does not raise.
C14_MalformedFallsBack ==
    (pc = "done" /\ service_calls = 1 /\ MalformedResponse)
        => (outcome = "return" /\ result = FirstN(mmr_sel, rerank_topk))

====
